---- MODULE Spec2Model ----
(***************************************************************************)
(* Model of reference/precision-analysis/scale_precision_calculator.py:    *)
(* the ScalePrecisionCalculator class, its three factory scale tables and  *)
(* the callers that query a constructed calculator.                        *)
(*                                                                         *)
(* Numbers.  Every float of the program (positions, beginsub, beginscale,  *)
(* endscale, intervals) is a decimal fixed-point number held as an integer *)
(* count of millionths: 0.05 is 50000, 1.0 is 1000000.  All values of the  *)
(* factory tables are exact in this representation.  Comparisons and       *)
(* floor(log10(x)) are computed exactly on it.                             *)
(*                                                                         *)
(* An interval is passed to math.log10, whose result is rounded to the     *)
(* nearest double, so an interval carries, beside its count of millionths, *)
(* an offset in units in the last place: [micro |-> 100000, ulps |-> -1]   *)
(* is the largest double below 0.1.                                        *)
(*                                                                         *)
(* Optional values.  Python's None is the empty sequence and a present     *)
(* value v is the one-element sequence <<v>>.                              *)
(***************************************************************************)
EXTENDS Integers, Sequences, FiniteSets, TLC

VARIABLES
    scale,              \* which scale table the definition came from
    given,              \* the scale_definition dictionary as passed to __init__
    subsections,        \* self.subsections
    beginscale,         \* self.beginscale
    endscale,           \* self.endscale
    xfactor,            \* self.xfactor
    pc,                 \* per caller: where its call stands
    op,                 \* per caller: the public method it called
    position,           \* per caller: the position argument
    active_subsection,  \* per caller: local of get_decimal_places
    smallest_interval,  \* per caller: local of get_decimal_places
    decimal_places,     \* per caller: outcome of get_decimal_places
    ret_line,           \* per caller: source line of the return that answered
    ret                 \* per caller: outcome of the public method

vars == <<scale, given, subsections, beginscale, endscale, xfactor, pc, op,
          position, active_subsection, smallest_interval, decimal_places,
          ret_line, ret>>

resolver == <<subsections, beginscale, endscale, xfactor>>

----------------------------------------------------------------------------
(* Bounds of the model *)

\* longest generated sub-range list
MaxSubs == 3

\* longest generated intervals sequence over the small tier alphabet
MaxTiers == 4

\* largest decimal exponent of the generated finest intervals m * 10^e
MaxExp == 6

----------------------------------------------------------------------------
(* Values *)

Unit == 10^6

None == <<>>

Some(v) == <<v>>

\* the double nearest to n millionths
D(n) == [micro |-> n, ulps |-> 0]

\* the largest double below n millionths
Below(n) == [micro |-> n, ulps |-> -1]

\* a present interval tier of n millionths
T(n) == Some(D(n))

Callers == {"c1", "c2"}

\* Outcome of a call: a returned value or a raised exception.
Returned(v) == [exc |-> "", val |-> <<v>>]

Raised(e) == [exc |-> e, val |-> <<>>]

NoOutcome == [exc |-> "", val |-> <<>>]

Min(a, b) == IF a <= b THEN a ELSE b

Max(a, b) == IF a >= b THEN a ELSE b

----------------------------------------------------------------------------
(* The factory scale tables *)

I4(a, b, c, d) == <<a, b, c, d>>

c_scale_definition ==
    [beginscale |-> 1 * Unit, endscale |-> 10 * Unit, xfactor |-> 100,
     subsections |-> <<
        [beginsub |-> 1 * Unit,
         intervals |-> I4(T(Unit), T(100000), T(50000), T(10000))],
        [beginsub |-> 2 * Unit,
         intervals |-> I4(T(Unit), T(500000), T(100000), T(20000))],
        [beginsub |-> 4 * Unit,
         intervals |-> I4(T(Unit), T(500000), T(100000), T(50000))],
        [beginsub |-> 10 * Unit,
         intervals |-> I4(T(10 * Unit), T(Unit), T(500000), T(100000))],
        [beginsub |-> 20 * Unit,
         intervals |-> I4(T(10 * Unit), T(5 * Unit), T(Unit), T(200000))],
        [beginsub |-> 40 * Unit,
         intervals |-> I4(T(10 * Unit), T(5 * Unit), T(Unit), T(500000))]
     >>]

ll00_scale_definition ==
    [beginscale |-> 990000, endscale |-> 999000, xfactor |-> 100000,
     subsections |-> <<
        [beginsub |-> 990000,
         intervals |-> I4(T(1000), T(500), T(100), T(50))],
        [beginsub |-> 995000,
         intervals |-> I4(T(1000), T(500), T(100), T(20))],
        [beginsub |-> 998000,
         intervals |-> I4(T(500), T(100), T(50), T(10))]
     >>]

k_scale_definition ==
    [beginscale |-> 1 * Unit, endscale |-> 1000 * Unit, xfactor |-> 100,
     subsections |-> <<
        [beginsub |-> 1 * Unit,
         intervals |-> I4(T(Unit), T(500000), T(100000), T(50000))],
        [beginsub |-> 3 * Unit,
         intervals |-> I4(T(Unit), None, T(500000), T(100000))],
        [beginsub |-> 6 * Unit,
         intervals |-> I4(T(Unit), None, None, T(200000))],
        [beginsub |-> 10 * Unit,
         intervals |-> I4(T(10 * Unit), T(5 * Unit), T(Unit), T(500000))],
        [beginsub |-> 30 * Unit,
         intervals |-> I4(T(10 * Unit), None, T(5 * Unit), T(Unit))],
        [beginsub |-> 60 * Unit,
         intervals |-> I4(T(10 * Unit), None, None, T(2 * Unit))],
        [beginsub |-> 100 * Unit,
         intervals |-> I4(T(100 * Unit), T(50 * Unit), T(10 * Unit), T(5 * Unit))],
        [beginsub |-> 300 * Unit,
         intervals |-> I4(T(100 * Unit), None, T(50 * Unit), T(10 * Unit))],
        [beginsub |-> 600 * Unit,
         intervals |-> I4(T(100 * Unit), None, None, T(20 * Unit))],
        [beginsub |-> 1000 * Unit,
         intervals |-> I4(T(1000 * Unit), T(500 * Unit), T(100 * Unit), T(50 * Unit))]
     >>]

----------------------------------------------------------------------------
(* Generated scale definitions: dictionaries a caller may pass to __init__ *)

\* A definition without an 'xfactor' key, spanning 1.0 .. 10.0.
Custom(subs) == [beginscale |-> 1 * Unit, endscale |-> 10 * Unit, subsections |-> subs]

SeqsUpTo(S, n) == UNION {[1..k -> S] : k \in 0..n}

\* Sub-ranges whose finest tiers convert to different precisions (3, 2, 1)
\* or are all absent, so that the selected sub-range shows in the result.
OrderTuples ==
    {I4(T(Unit), T(100000), T(50000), T(10000)),
     I4(T(Unit), None, None, T(200000)),
     I4(T(2 * Unit), None, None, None),
     I4(None, None, None, None)}

OrderSubRanges == [beginsub : {1 * Unit, 2 * Unit, 4 * Unit}, intervals : OrderTuples]

OrderDefinitions == {Custom(subs) : subs \in SeqsUpTo(OrderSubRanges, MaxSubs)}

\* One sub-range whose intervals sequence runs over every absent/present
\* pattern of up to MaxTiers tiers.
TierAlphabet == {None, T(Unit), T(100000)}

TierDefinitions ==
    {Custom(<<[beginsub |-> 1 * Unit, intervals |-> t]>>) :
        t \in SeqsUpTo(TierAlphabet, MaxTiers)}

\* One sub-range whose finest interval runs over m * 10^e millionths, just
\* below 1.0, zero, a negative value, and the doubles just below 0.001,
\* 0.01, 0.1 and 1.0.
FinestIntervals ==
    {D(m * 10^e) : m \in {1, 2, 5, 9}, e \in 0..MaxExp}
        \cup {D(999999), D(0), D(-500000)}
        \cup {Below(10^e) : e \in 3..6}

FinestDefinitions ==
    {Custom(<<[beginsub |-> 1 * Unit,
               intervals |-> I4(T(Unit), None, None, Some(v))]>>) :
        v \in FinestIntervals}

ScaleNames == {"C", "LL00", "K", "custom"}

DefinitionsOf(s) ==
    CASE s = "C" -> {c_scale_definition}
      [] s = "LL00" -> {ll00_scale_definition}
      [] s = "K" -> {k_scale_definition}
      [] OTHER -> OrderDefinitions \cup TierDefinitions \cup FinestDefinitions

\* Positions the callers query.  None of them is a rounding tie at 1..5
\* fractional digits.
PositionsOf(s) ==
    CASE s = "C" -> {1000000, 1500000, 2000000, 3141590, 4000000, 5000000,
                     7500000, 9000000, 10000000, 50000000}
      [] s = "LL00" -> {990000, 993000, 996000, 998500, 999000}
      [] s = "K" -> {1 * Unit, 3 * Unit, 5 * Unit, 6 * Unit, 10 * Unit, 50 * Unit,
                     100 * Unit, 500 * Unit, 1000 * Unit}
      [] OTHER -> {500000, 1000000, 1999000, 2000000, 3999000, 4000000,
                   10000000, 11000000}

----------------------------------------------------------------------------
(* ScalePrecisionCalculator *)

\* Mutant: the list is left in the order given.
KeepGivenOrder(subs) == subs

\* list.sort(key=lambda s: s['beginsub']): stable, ascending.
RECURSIVE InsertByBeginsub(_, _)
InsertByBeginsub(sorted, s) ==
    IF sorted = <<>> THEN <<s>>
    ELSE IF sorted[Len(sorted)].beginsub <= s.beginsub THEN Append(sorted, s)
    ELSE Append(InsertByBeginsub(SubSeq(sorted, 1, Len(sorted) - 1), s),
                sorted[Len(sorted)])

RECURSIVE SortFrom(_, _, _)
SortFrom(subs, i, sorted) ==
    IF i > Len(subs) THEN sorted
    ELSE SortFrom(subs, i + 1, InsertByBeginsub(sorted, subs[i]))

SortByBeginsub(subs) == SortFrom(subs, 1, <<>>)

\* scale_definition.get('xfactor', 100)
GetXfactor(d) == IF "xfactor" \in DOMAIN d THEN d.xfactor ELSE 100

\* Mutant: the ends of the scale count as out of bounds.
OutOfBoundsAtEnds(p, lo, hi) == p <= lo \/ p >= hi

\* Mutant: only the lower end of the scale is tested.
OutOfBoundsBelowOnly(p, lo, hi) == p < lo

\* the bounds test of get_decimal_places
OutOfBounds(p, lo, hi) == p < lo \/ p > hi

\* the for loop of _find_active_subsection, from index i on
RECURSIVE ScanSubsections(_, _, _, _)
ScanSubsections(subs, i, p, active) ==
    IF i > Len(subs) THEN active
    ELSE IF p >= subs[i].beginsub
         THEN ScanSubsections(subs, i + 1, p, Some(subs[i]))
         ELSE active

\* Mutant: the scan starts from the first sub-range instead of None.
FindActiveDefaultFirst(subs, p) ==
    IF subs = <<>> THEN None ELSE ScanSubsections(subs, 1, p, Some(subs[1]))

\* Mutant: the scan stops at the first sub-range with beginsub <= position.
FindFirstMatch(subs, p) ==
    IF \E i \in 1..Len(subs) : p >= subs[i].beginsub
    THEN Some(subs[CHOOSE i \in 1..Len(subs) :
                  /\ p >= subs[i].beginsub
                  /\ \A j \in 1..(i - 1) : p < subs[j].beginsub])
    ELSE None

_find_active_subsection(subs, p) == ScanSubsections(subs, 1, p, None)

\* the reversed() loop of _get_smallest_interval, from index i down
RECURSIVE ScanIntervals(_, _)
ScanIntervals(intervals, i) ==
    IF i < 1 THEN None
    ELSE IF intervals[i] # None THEN intervals[i]
    ELSE ScanIntervals(intervals, i - 1)

\* Mutant: the intervals are scanned from the coarsest tier forward.
GetFirstInterval(subsection) ==
    IF \E j \in 1..Len(subsection.intervals) : subsection.intervals[j] # None
    THEN subsection.intervals[CHOOSE j \in 1..Len(subsection.intervals) :
             /\ subsection.intervals[j] # None
             /\ \A k \in 1..(j - 1) : subsection.intervals[k] = None]
    ELSE None

_get_smallest_interval(subsection) ==
    ScanIntervals(subsection.intervals, Len(subsection.intervals))

\* floor(log10(n)) of an integer n >= 1
RECURSIVE ILog10(_)
ILog10(n) == IF n < 10 THEN 0 ELSE 1 + ILog10(n \div 10)

\* interval >= 1
AtLeastOne(x) == x.micro > Unit \/ (x.micro = Unit /\ x.ulps >= 0)

\* interval > 0, the domain of math.log10
Positive(x) == x.micro > 0 \/ (x.micro = 0 /\ x.ulps > 0)

\* Mutant: math.ceil in place of math.floor.
CeilLog10(x) ==
    ILog10(x.micro) - ILog10(Unit) + (IF 10^ILog10(x.micro) = x.micro THEN 0 ELSE 1)

\* math.floor(math.log10(x)) of an interval 0 < x < 1.  math.log10 returns
\* the double nearest to the logarithm: for the double just below 10^-k
\* (k >= 1) that is -k itself, and for the double just below 1.0 it is a
\* tiny negative number, whose floor is -1.
FloorLog10(x) ==
    IF x.micro = Unit THEN -1 ELSE ILog10(x.micro) - ILog10(Unit)

\* Mutant: the result is not clamped from above.
IntervalToPlacesUnclamped(interval) ==
    IF AtLeastOne(interval) THEN Returned(1)
    ELSE IF ~Positive(interval) THEN Raised("ValueError")
    ELSE Returned(Max(-FloorLog10(interval) + 1, 1))

\* math.log10 raises ValueError ("math domain error") for x <= 0.
_interval_to_decimal_places(interval) ==
    IF AtLeastOne(interval) THEN Returned(1)
    ELSE IF ~Positive(interval) THEN Raised("ValueError")
    ELSE Returned(Min(Max(-FloorLog10(interval) + 1, 1), 5))

\* get_decimal_places as one function of the resolver's fields
get_decimal_places(subs, lo, hi, p) ==
    IF OutOfBounds(p, lo, hi) THEN Returned(2)
    ELSE LET active == _find_active_subsection(subs, p) IN
         IF active = None THEN Returned(2)
         ELSE LET smallest == _get_smallest_interval(active[1]) IN
              IF smallest = None THEN Returned(2)
              ELSE _interval_to_decimal_places(smallest[1])

\* f"{position:.{places}f}": the position rounded (half to even) to `places`
\* fractional digits, as whole part, fractional digits and their count.
FormatFixed(p, places) ==
    LET step == 10^(6 - places)
        q == p \div step
        r == p % step
        n == IF 2 * r > step \/ (2 * r = step /\ q % 2 = 1) THEN q + 1 ELSE q
    IN  [whole |-> n \div 10^places, frac |-> n % 10^places, places |-> places]

get_formatted_value(subs, lo, hi, p) ==
    LET d == get_decimal_places(subs, lo, hi, p) IN
    IF d.exc # "" THEN d ELSE Returned(FormatFixed(p, d.val[1]))

----------------------------------------------------------------------------
(* State machine: one constructed calculator and the callers that query it *)

\* __init__: the fields of the new calculator, the list sorted by beginsub
Construct(d) ==
    [subsections |-> SortByBeginsub(d.subsections),
     beginscale |-> d.beginscale,
     endscale |-> d.endscale,
     xfactor |-> GetXfactor(d)]

InitWith(names, callers) ==
    \E s \in names : \E d \in DefinitionsOf(s) :
        /\ scale = s
        /\ given = d
        /\ subsections = Construct(d).subsections
        /\ beginscale = Construct(d).beginscale
        /\ endscale = Construct(d).endscale
        /\ xfactor = Construct(d).xfactor
        /\ pc = [c \in callers |-> "idle"]
        /\ op = [c \in callers |-> ""]
        /\ position = [c \in callers |-> 0]
        /\ active_subsection = [c \in callers |-> None]
        /\ smallest_interval = [c \in callers |-> None]
        /\ decimal_places = [c \in callers |-> NoOutcome]
        /\ ret_line = [c \in callers |-> 0]
        /\ ret = [c \in callers |-> NoOutcome]

\* A caller enters get_decimal_places(position).
CallDecimalPlaces(c, p) ==
    /\ pc[c] = "idle"
    /\ pc' = [pc EXCEPT ![c] = "bounds"]
    /\ op' = [op EXCEPT ![c] = "get_decimal_places"]
    /\ position' = [position EXCEPT ![c] = p]
    /\ UNCHANGED <<scale, given, resolver, active_subsection, smallest_interval,
                   decimal_places, ret_line, ret>>

\* A caller enters get_formatted_value(position), which calls
\* get_decimal_places(position).
CallFormattedValue(c, p) ==
    /\ pc[c] = "idle"
    /\ pc' = [pc EXCEPT ![c] = "bounds"]
    /\ op' = [op EXCEPT ![c] = "get_formatted_value"]
    /\ position' = [position EXCEPT ![c] = p]
    /\ UNCHANGED <<scale, given, resolver, active_subsection, smallest_interval,
                   decimal_places, ret_line, ret>>

\* get_decimal_places leaves through the return statement at `line` with
\* `outcome`.  A returned value ends a get_decimal_places call and goes on to
\* the formatting of a get_formatted_value call; an exception ends either.
LeaveDecimalPlaces(c, outcome, line) ==
    /\ decimal_places' = [decimal_places EXCEPT ![c] = outcome]
    /\ ret_line' = [ret_line EXCEPT ![c] = line]
    /\ IF op[c] = "get_formatted_value" /\ outcome.exc = ""
       THEN /\ pc' = [pc EXCEPT ![c] = "format"]
            /\ ret' = ret
       ELSE /\ pc' = [pc EXCEPT ![c] = "done"]
            /\ ret' = [ret EXCEPT ![c] = outcome]

\* the bounds test
CheckBounds(c) ==
    /\ pc[c] = "bounds"
    /\ IF OutOfBounds(position[c], beginscale, endscale)
       THEN LeaveDecimalPlaces(c, Returned(2), 52)
       ELSE /\ pc' = [pc EXCEPT ![c] = "find"]
            /\ UNCHANGED <<decimal_places, ret_line, ret>>
    /\ UNCHANGED <<scale, given, resolver, op, position, active_subsection,
                   smallest_interval>>

\* Mutant: the lookup removes the sub-ranges it has passed from self.subsections.
FindActiveConsuming(c) ==
    /\ pc[c] = "find"
    /\ LET active == _find_active_subsection(subsections, position[c])
           passed == Cardinality({i \in 1..Len(subsections) :
                                     position[c] >= subsections[i].beginsub})
       IN
       /\ active_subsection' = [active_subsection EXCEPT ![c] = active]
       /\ subsections' = SubSeq(subsections, passed + 1, Len(subsections))
       /\ IF active = None
          THEN LeaveDecimalPlaces(c, Returned(2), 58)
          ELSE /\ pc' = [pc EXCEPT ![c] = "smallest"]
               /\ UNCHANGED <<decimal_places, ret_line, ret>>
    /\ UNCHANGED <<scale, given, beginscale, endscale, xfactor, op, position,
                   smallest_interval>>

\* active_subsection = self._find_active_subsection(position)
FindActive(c) ==
    /\ pc[c] = "find"
    /\ LET active == _find_active_subsection(subsections, position[c]) IN
       /\ active_subsection' = [active_subsection EXCEPT ![c] = active]
       /\ IF active = None
          THEN LeaveDecimalPlaces(c, Returned(2), 58)
          ELSE /\ pc' = [pc EXCEPT ![c] = "smallest"]
               /\ UNCHANGED <<decimal_places, ret_line, ret>>
    /\ UNCHANGED <<scale, given, resolver, op, position, smallest_interval>>

\* smallest_interval = self._get_smallest_interval(active_subsection)
SmallestInterval(c) ==
    /\ pc[c] = "smallest"
    /\ LET smallest == _get_smallest_interval(active_subsection[c][1]) IN
       /\ smallest_interval' = [smallest_interval EXCEPT ![c] = smallest]
       /\ IF smallest = None
          THEN LeaveDecimalPlaces(c, Returned(2), 64)
          ELSE /\ pc' = [pc EXCEPT ![c] = "convert"]
               /\ UNCHANGED <<decimal_places, ret_line, ret>>
    /\ UNCHANGED <<scale, given, resolver, op, position, active_subsection>>

\* return self._interval_to_decimal_places(smallest_interval)
Convert(c) ==
    /\ pc[c] = "convert"
    /\ LeaveDecimalPlaces(c, _interval_to_decimal_places(smallest_interval[c][1]), 67)
    /\ UNCHANGED <<scale, given, resolver, op, position, active_subsection,
                   smallest_interval>>

\* return f"{position:.{decimal_places}f}"
Format(c) ==
    /\ pc[c] = "format"
    /\ ret' = [ret EXCEPT ![c] =
                  Returned(FormatFixed(position[c], decimal_places[c].val[1]))]
    /\ pc' = [pc EXCEPT ![c] = "done"]
    /\ UNCHANGED <<scale, given, resolver, op, position, active_subsection,
                   smallest_interval, decimal_places, ret_line>>

\* The caller takes the outcome; its frame is gone.
Return(c) ==
    /\ pc[c] = "done"
    /\ pc' = [pc EXCEPT ![c] = "idle"]
    /\ op' = [op EXCEPT ![c] = ""]
    /\ position' = [position EXCEPT ![c] = 0]
    /\ active_subsection' = [active_subsection EXCEPT ![c] = None]
    /\ smallest_interval' = [smallest_interval EXCEPT ![c] = None]
    /\ decimal_places' = [decimal_places EXCEPT ![c] = NoOutcome]
    /\ ret_line' = [ret_line EXCEPT ![c] = 0]
    /\ ret' = [ret EXCEPT ![c] = NoOutcome]
    /\ UNCHANGED <<scale, given, resolver>>

Next ==
    \/ \E c \in DOMAIN pc : \E p \in PositionsOf(scale) : CallDecimalPlaces(c, p)
    \/ \E c \in DOMAIN pc : \E p \in PositionsOf(scale) : CallFormattedValue(c, p)
    \/ \E c \in DOMAIN pc : CheckBounds(c)
    \/ \E c \in DOMAIN pc : FindActive(c)
    \/ \E c \in DOMAIN pc : SmallestInterval(c)
    \/ \E c \in DOMAIN pc : Convert(c)
    \/ \E c \in DOMAIN pc : Format(c)
    \/ \E c \in DOMAIN pc : Return(c)

\* One caller, every scale definition of the model.
Init == InitWith(ScaleNames, {"c1"})

Spec == Init /\ [][Next]_vars

\* Two callers sharing one calculator built by a factory.
InitShared == InitWith({"C", "LL00", "K"}, Callers)

SpecShared == InitShared /\ [][Next]_vars

----------------------------------------------------------------------------
(* Properties *)

\* get_decimal_places has left through one of its return statements.
Answered(c) == ret_line[c] # 0

\* _find_active_subsection has run in the caller's current call.
Looked(c) == pc[c] \in {"smallest", "convert"} \/ ret_line[c] \in {58, 64, 67}

\* _get_smallest_interval has run in the caller's current call.
Extracted(c) == pc[c] = "convert" \/ ret_line[c] \in {64, 67}

\* C1: a position below beginscale or above endscale is answered 2 by the
\* out-of-bounds return; a position equal to beginscale or to endscale is in
\* bounds and is not answered by that return.
C1_OutOfBoundsDefault ==
    \A c \in DOMAIN pc : Answered(c) =>
        /\ (position[c] < beginscale \/ position[c] > endscale)
              => (ret_line[c] = 52 /\ decimal_places[c] = Returned(2))
        /\ (beginscale <= endscale /\ position[c] \in {beginscale, endscale})
              => ret_line[c] # 52

C1_Witness ==
    \E c \in DOMAIN pc :
        /\ pc[c] = "done" /\ op[c] = "get_decimal_places"
        /\ position[c] < beginscale
        /\ ret[c] = Returned(2)

\* Every interval present in the calculator's sub-ranges is strictly positive.
PositiveIntervals ==
    \A i \in 1..Len(subsections) :
        \A j \in 1..Len(subsections[i].intervals) :
            subsections[i].intervals[j] # None => Positive(subsections[i].intervals[j][1])

\* C2: when every present interval is strictly positive, get_decimal_places
\* returns an integer in 1..5 for every position, however small the interval.
C2_ClampedToOneFive ==
    PositiveIntervals =>
        \A c \in DOMAIN pc : Answered(c) =>
            /\ decimal_places[c].exc = ""
            /\ decimal_places[c].val[1] \in 1..5

C2_Witness ==
    \E c \in DOMAIN pc :
        /\ ret_line[c] = 67
        /\ smallest_interval[c] = T(1)
        /\ decimal_places[c] = Returned(5)

\* Exact comparison of an interval with n millionths.
Less(x, n) == x.micro < n \/ (x.micro = n /\ x.ulps < 0)

\* The reference conversion: 1 for interval >= 1, otherwise min(k + 1, 5) for
\* the k >= 1 with 10^-k <= interval < 10^-(k-1); an interval of at least
\* one millionth has k <= 6.
ReferencePlaces(x) ==
    IF ~Less(x, Unit) THEN 1
    ELSE LET k == CHOOSE n \in 1..6 :
                      /\ ~Less(x, Unit \div 10^n)
                      /\ Less(x, Unit \div 10^(n - 1))
         IN  IF k + 1 <= 5 THEN k + 1 ELSE 5

\* C3: for every strictly positive interval the conversion returns the
\* reference value; 0.1, 0.01, 0.001, 0.0001 give 2, 3, 4, 5.
C3_ConversionMatchesReference ==
    \A c \in DOMAIN pc :
        (ret_line[c] = 67 /\ Positive(smallest_interval[c][1])) =>
            /\ decimal_places[c] = Returned(ReferencePlaces(smallest_interval[c][1]))
            /\ smallest_interval[c] = T(100000) => decimal_places[c] = Returned(2)
            /\ smallest_interval[c] = T(10000) => decimal_places[c] = Returned(3)
            /\ smallest_interval[c] = T(1000) => decimal_places[c] = Returned(4)
            /\ smallest_interval[c] = T(100) => decimal_places[c] = Returned(5)

\* C4: for a position within [beginscale, endscale], get_decimal_places
\* returns 2 when no sub-range has beginsub <= position (the list may be
\* empty) and when the active sub-range's intervals are all absent.
C4_DegenerateDefault ==
    \A c \in DOMAIN pc :
        (Answered(c) /\ beginscale <= position[c] /\ position[c] <= endscale) =>
            /\ (\A i \in 1..Len(subsections) : subsections[i].beginsub > position[c])
                  => decimal_places[c] = Returned(2)
            /\ (/\ active_subsection[c] # None
                /\ \A j \in 1..Len(active_subsection[c][1].intervals) :
                       active_subsection[c][1].intervals[j] = None)
                  => decimal_places[c] = Returned(2)

C4_Witness ==
    \E c \in DOMAIN pc :
        /\ pc[c] = "done"
        /\ subsections # <<>>
        /\ \A i \in 1..Len(subsections) :
               /\ subsections[i].beginsub > position[c]
               /\ _get_smallest_interval(subsections[i]) = T(10000)
        /\ position[c] >= beginscale
        /\ decimal_places[c] = Returned(2)

\* C5: get_decimal_places and get_formatted_value raise no error, whatever
\* the scale configuration (a zero or negative finest interval included).
C5_NeverRaises ==
    \A c \in DOMAIN pc : pc[c] = "done" => ret[c].exc = ""

\* C6 as stated: on the C scale every position p with 4 <= p < 10 has the
\* active sub-range beginsub = 4, finest interval 0.05, and is answered 2.
C6_AsStated ==
    scale = "C" =>
        \A c \in DOMAIN pc :
            (Answered(c) /\ 4 * Unit <= position[c] /\ position[c] < 10 * Unit) =>
                /\ active_subsection[c] # None
                /\ active_subsection[c][1].beginsub = 4 * Unit
                /\ smallest_interval[c] = T(50000)
                /\ decimal_places[c] = Returned(2)

\* C6: on the C scale every position p with 4 <= p < 10 has the active
\* sub-range beginsub = 4, finest interval 0.05, and is answered 3.
C6_CScaleFourToTen ==
    scale = "C" =>
        \A c \in DOMAIN pc :
            (Answered(c) /\ 4 * Unit <= position[c] /\ position[c] < 10 * Unit) =>
                /\ active_subsection[c] # None
                /\ active_subsection[c][1].beginsub = 4 * Unit
                /\ smallest_interval[c] = T(50000)
                /\ decimal_places[c] = Returned(3)

C6_Witness ==
    \E c \in DOMAIN pc :
        /\ scale = "C" /\ pc[c] = "done" /\ op[c] = "get_decimal_places"
        /\ position[c] = 9 * Unit
        /\ ret[c] = Returned(3)

\* C7 as stated: on the C scale position 50.0 resolves to the active
\* sub-range beginsub = 40 with finest interval 0.5 and is answered 1.
C7_AsStated ==
    scale = "C" =>
        \A c \in DOMAIN pc :
            (Answered(c) /\ position[c] = 50 * Unit) =>
                /\ active_subsection[c] # None
                /\ active_subsection[c][1].beginsub = 40 * Unit
                /\ smallest_interval[c] = T(500000)
                /\ decimal_places[c] = Returned(1)

\* C7: on the C scale position 50.0 lies above endscale = 10 and is answered
\* 2 by the out-of-bounds return before any sub-range is looked up; the
\* sub-range in force at 50.0 is beginsub = 40, whose finest interval 0.5
\* converts to 2.
C7_CScaleFifty ==
    scale = "C" =>
        \A c \in DOMAIN pc :
            (Answered(c) /\ position[c] = 50 * Unit) =>
                /\ ret_line[c] = 52
                /\ decimal_places[c] = Returned(2)
                /\ active_subsection[c] = None
                /\ smallest_interval[c] = None
                /\ LET active == _find_active_subsection(subsections, 50 * Unit) IN
                   /\ active # None
                   /\ active[1].beginsub = 40 * Unit
                   /\ _get_smallest_interval(active[1]) = T(500000)
                   /\ _interval_to_decimal_places(D(500000)) = Returned(2)

C7_Witness ==
    \E c \in DOMAIN pc :
        /\ scale = "C" /\ pc[c] = "done" /\ op[c] = "get_decimal_places"
        /\ position[c] = 50 * Unit
        /\ ret[c] = Returned(2)

\* What the caller's call returns when it runs alone on the calculator
\* freshly constructed from the given definition.
Alone(c) ==
    LET fresh == Construct(given) IN
    IF op[c] = "get_decimal_places"
    THEN get_decimal_places(fresh.subsections, fresh.beginscale, fresh.endscale,
                            position[c])
    ELSE get_formatted_value(fresh.subsections, fresh.beginscale, fresh.endscale,
                             position[c])

\* C8: no step of any caller's get_decimal_places or get_formatted_value
\* call changes subsections, beginscale or endscale, and every call,
\* however interleaved with others, ends with the outcome it has when run
\* alone on the freshly constructed calculator.
C8_QueriesArePure ==
    /\ [][/\ subsections' = subsections
          /\ beginscale' = beginscale
          /\ endscale' = endscale]_vars
    /\ [](\A c \in DOMAIN pc : pc[c] = "done" => ret[c] = Alone(c))

C8_Witness ==
    /\ pc["c1"] = "done" /\ op["c1"] = "get_formatted_value"
    /\ pc["c2"] = "convert" /\ op["c2"] = "get_decimal_places"
    /\ position["c1"] # position["c2"]
    /\ ret["c1"] = Returned([whole |-> 3, frac |-> 142, places |-> 3])

\* The scan of _find_active_subsection without its early break.
RECURSIVE FullScan(_, _, _, _)
FullScan(subs, i, p, active) ==
    IF i > Len(subs) THEN active
    ELSE FullScan(subs, i + 1, p, IF p >= subs[i].beginsub THEN Some(subs[i]) ELSE active)

\* C9: whatever order the sub-ranges were given in, _find_active_subsection
\* returns a given sub-range whose beginsub is the greatest one <= position
\* (a position equal to a beginsub selects that sub-range), returns None when
\* every beginsub is > position, and agrees with the scan that never breaks.
C9_ActiveIsGreatestNotAbove ==
    \A c \in DOMAIN pc : Looked(c) =>
        LET subs == given.subsections
            qualifying == {i \in 1..Len(subs) : subs[i].beginsub <= position[c]}
            active == active_subsection[c]
        IN  /\ IF qualifying = {}
               THEN active = None
               ELSE /\ active # None
                    /\ \E i \in qualifying : subs[i] = active[1]
                    /\ \A i \in qualifying : subs[i].beginsub <= active[1].beginsub
            /\ active = FullScan(subsections, 1, position[c], None)

C9_Witness ==
    \E c \in DOMAIN pc :
        /\ Looked(c)
        /\ Len(given.subsections) = 2
        /\ given.subsections[1].beginsub = 2 * Unit
        /\ given.subsections[2].beginsub = 1 * Unit
        /\ position[c] = 1999000
        /\ active_subsection[c] = Some(given.subsections[2])

\* C10: _get_smallest_interval returns the last present entry of the
\* sub-range's intervals, and None exactly when every entry is absent.
C10_SmallestIsLastPresent ==
    \A c \in DOMAIN pc : Extracted(c) =>
        LET iv == active_subsection[c][1].intervals
            present == {j \in 1..Len(iv) : iv[j] # None}
        IN  /\ (smallest_interval[c] = None) <=> (present = {})
            /\ present # {} =>
                   \E j \in present :
                       /\ \A k \in present : k <= j
                       /\ smallest_interval[c] = iv[j]

C10_Witness ==
    \E c \in DOMAIN pc :
        /\ Extracted(c)
        /\ active_subsection[c][1].intervals = <<T(Unit), T(100000), None, None>>
        /\ smallest_interval[c] = T(100000)

====
